---- MODULE Spec2Model ----
(***************************************************************************)
(* dockertop (src/src/main.rs): the terminal dashboard's main loop, the    *)
(* application state it owns, and the stats collection App::update_stats.  *)
(*                                                                         *)
(* One control thread runs main().  Every call that can fail or suspend    *)
(* (terminal calls, event poll/read, the two awaits of update_stats) is a  *)
(* step of that thread; pc is its position.  The container runtime and the *)
(* terminal are the environment: their answers are drawn with \E.          *)
(***************************************************************************)
EXTENDS Integers, Sequences, FiniteSets, TLC

VARIABLES
    pc,             \* position of main()
    err,            \* the call whose error main() returned with `?` ("none" while none)
    raw_mode,       \* terminal: raw mode enabled
    alt_screen,     \* terminal: alternate screen entered
    mouse_capture,  \* terminal: mouse capture enabled
    app,            \* struct App {containers, selected_index, should_quit}
    elapsed,        \* last_tick.elapsed() in ms, saturated at tick_rate
    event,          \* the event waiting in the terminal's input queue after poll() = true
    pending,        \* update_stats: the part of the listed containers the for loop has not consumed
    stream,         \* update_stats: behaviour of the stats stream being awaited
    old_containers, \* history: app.containers as it was when the running update_stats began
    enumerated,     \* update_stats: the Vec that list_containers returned to the running call
    requested,      \* history: the ids the running update_stats has asked docker.stats for
    call            \* a call of calculate_cpu_usage or format_bytes: its arguments, locals and result

vars == <<pc, err, raw_mode, alt_screen, mouse_capture, app, elapsed, event,
          pending, stream, old_containers, enumerated, requested, call>>

----------------------------------------------------------------------------
(* Bounds of the model *)

\* longest container list the runtime returns
MaxContainers == 3

\* the unsigned counters of a stats item are WordBits wide in the model,
\* in place of the 64 bits of a u64
WordBits == 12

(* Program constants *)

\* Duration::from_millis(2000)
tick_rate == 2000

----------------------------------------------------------------------------
(* Option<T>: None is <<>>, Some(v) is <<v>> *)

None == <<>>
Some(v) == <<v>>
Option(S) == {None} \cup {Some(v) : v \in S}
unwrap_or(o, d) == IF o = None THEN d ELSE o[1]

Min(a, b) == IF a <= b THEN a ELSE b
Max(a, b) == IF a >= b THEN a ELSE b

\* usize::saturating_sub
saturating_sub(a, b) == IF a >= b THEN a - b ELSE 0

\* Duration::checked_sub(..).unwrap_or_else(|| Duration::from_secs(0))
checked_sub_or_zero(a, b) == IF a >= b THEN a - b ELSE 0

(* A String is a sequence of characters. *)
RECURSIVE trim_start_matches(_, _)
trim_start_matches(s, c) ==
    IF s # <<>> /\ Head(s) = c THEN trim_start_matches(Tail(s), c) ELSE s

----------------------------------------------------------------------------
(* What the environment can answer *)

\* ContainerSummary of the runtime client: id: Option<String>,
\* names: Option<Vec<String>> (absent, empty, or one alias).  A String is a
\* sequence of characters; identifiers are numbered.
Summaries ==
    { [id |-> None,    names |-> Some(<< <<"/", "a">> >>)],
      [id |-> Some(1), names |-> Some(<< <<"/", "a">> >>)],
      [id |-> Some(2), names |-> Some(<< <<"b">> >>)],
      [id |-> Some(1), names |-> None],
      [id |-> Some(2), names |-> Some(<<>>)] }

RECURSIVE SeqsUpTo(_, _)
SeqsUpTo(S, n) ==
    IF n = 0 THEN { <<>> }
    ELSE LET shorter == SeqsUpTo(S, n - 1)
         IN  shorter \cup { Append(s, x) : s \in {t \in shorter : Len(t) = n - 1}, x \in S }

\* results of docker.list_containers
Listings == SeqsUpTo(Summaries, MaxContainers)

\* one item of the stats stream: memory_stats.usage and memory_stats.limit,
\* both absent, or a usage with a limit that reads 0
StatsItems ==
    { [usage |-> None,    limit |-> None],
      [usage |-> Some(3), limit |-> Some(0)] }

\* the items the runtime has for a container: container 1 reports no memory
\* figures, every other container a limit of 0
StatsOf(id) ==
    IF id = 1 THEN { st \in StatsItems : st.limit = None }
    ELSE { st \in StatsItems : st.limit # None }

\* what docker.stats(..).try_next().await can do: yield an item, yield a
\* transport error, end without an item, or never yield
StreamBehaviours == {"item", "error", "end", "never"}

\* crossterm events: the keys the loop distinguishes, another key, and a non-key event
NoEvent == [kind |-> "none", code |-> "none"]
Events ==
    { [kind |-> "Key", code |-> c] : c \in {"q", "Up", "Down", "Enter"} }
    \cup { [kind |-> "Mouse", code |-> "none"] }

\* amounts of time a blocking call can take
Delays == {0, tick_rate \div 2, tick_rate}
Later(e) == { Min(e + d, tick_rate) : d \in Delays }

----------------------------------------------------------------------------
(* struct App *)

App_new == [containers |-> <<>>, selected_index |-> 0, should_quit |-> FALSE]

\* KeyCode::Up arm
MoveUp(a) ==
    IF a.selected_index > 0
    THEN [a EXCEPT !.selected_index = a.selected_index - 1]
    ELSE a

\* MoveDown with the bound off by one
MoveDownOffByOne(a) ==
    IF a.selected_index <= saturating_sub(Len(a.containers), 1)
    THEN [a EXCEPT !.selected_index = a.selected_index + 1]
    ELSE a

\* KeyCode::Down arm
MoveDown(a) ==
    IF a.selected_index < saturating_sub(Len(a.containers), 1)
    THEN [a EXCEPT !.selected_index = a.selected_index + 1]
    ELSE a

\* HandleEvent with the Enter key of the help bar selecting the first container
HandleEventEnterSelects(a, ev) ==
    IF ev.kind # "Key" THEN a
    ELSE IF ev.code = "q" THEN [a EXCEPT !.should_quit = TRUE]
    ELSE IF ev.code = "Up" THEN MoveUp(a)
    ELSE IF ev.code = "Down" THEN MoveDown(a)
    ELSE IF ev.code = "Enter" THEN [a EXCEPT !.selected_index = 0]
    ELSE a

\* the match on key.code, for an event that event::read() returned
HandleEvent(a, ev) ==
    IF ev.kind # "Key" THEN a
    ELSE IF ev.code = "q" THEN [a EXCEPT !.should_quit = TRUE]
    ELSE IF ev.code = "Up" THEN MoveUp(a)
    ELSE IF ev.code = "Down" THEN MoveDown(a)
    ELSE a

\* ResetContainers rebuilding the whole App instead of its list
ResetWholeApp(a) == [App_new EXCEPT !.selected_index = a.selected_index]

\* self.containers = Vec::with_capacity(containers.len())
ResetContainers(a) == [a EXCEPT !.containers = <<>>]

\* the ContainerStats pushed for a listed container and its stats item;
\* defined when the container has a first alias
MakeContainerStats(c, st) ==
    [ id           |-> c.id[1],
      name         |-> trim_start_matches(unwrap_or(c.names, <<>>)[1], "/"),
      memory_usage |-> unwrap_or(st.usage, 0),
      memory_limit |-> unwrap_or(st.limit, 1) ]

\* unwrap_or_default()[0] is in bounds
HasFirstName(c) == Len(unwrap_or(c.names, <<>>)) >= 1

----------------------------------------------------------------------------
(* calculate_cpu_usage *)

Modulus == 2 ^ WordBits

\* how the program was built: with overflow checks (debug profile) or
\* without (release profile)
Builds == {"debug", "release"}

\* a - b on unsigned counters: the difference; on overflow a panic in a
\* build with overflow checks, the wrapped difference in one without
sub_unsigned(a, b, build) ==
    IF a >= b THEN [ok |-> TRUE, v |-> a - b]
    ELSE IF build = "debug" THEN [ok |-> FALSE, v |-> 0]
    ELSE [ok |-> TRUE, v |-> a - b + Modulus]

\* the f64 results: 0.0, and (cpu_delta / system_delta) * 100.0 kept as a fraction
CpuPanic == [panic |-> TRUE, num |-> 0, den |-> 1]
CpuValue(n, d) == [panic |-> FALSE, num |-> n, den |-> d]

calculate_cpu_usage(stats, build) ==
    LET cpu_delta == sub_unsigned(stats.cpu_total, stats.precpu_total, build)
        system_delta == sub_unsigned(unwrap_or(stats.system, 0),
                                     unwrap_or(stats.presystem, 0), build)
    IN  IF ~cpu_delta.ok \/ ~system_delta.ok THEN CpuPanic
        ELSE IF system_delta.v > 0
        THEN CpuValue(cpu_delta.v * 100, system_delta.v)
        ELSE CpuValue(0, 1)

----------------------------------------------------------------------------
(* format_bytes *)

\* const UNITS: [&str; 4]
UNITS == <<"B", "KB", "MB", "GB">>

\* the scale of the units, 1024.0
kilo == 1024

\* a u64 is written in base kilo, lowest digit first: six digits of ten bits
\* and a seventh of four bits
U64Limbs == 7
TopLimbMax == 15

RECURSIVE u64_limbs(_, _)
u64_limbs(n, k) == IF k = 0 THEN <<>> ELSE <<n % kilo>> \o u64_limbs(n \div kilo, k - 1)

\* bytes as f64, and the f64 after `shift` divisions by 1024.0: the digits
\* with the point moved `shift` places.  (Dividing by a power of two is exact;
\* the rounding of a u64 above 2^53 changes no comparison with 1024.0 that
\* the loop makes.)
as_f64(limbs) == [limbs |-> limbs, shift |-> 0]

\* size >= 1024.0
ge_kilo(size) ==
    \E j \in 1..Len(size.limbs) : j - 1 - size.shift >= 1 /\ size.limbs[j] # 0

\* size /= 1024.0
div_kilo(size) == [size EXCEPT !.shift = @ + 1]

\* the while loop with the bound of the unit index off by one
RECURSIVE format_loop_past_gb(_, _)
format_loop_past_gb(size, unit_index) ==
    IF ge_kilo(size) /\ unit_index < Len(UNITS)
    THEN format_loop_past_gb(div_kilo(size), unit_index + 1)
    ELSE [size |-> size, unit_index |-> unit_index]

\* while size >= 1024.0 && unit_index < UNITS.len() - 1 { .. }
RECURSIVE format_loop(_, _)
format_loop(size, unit_index) ==
    IF ge_kilo(size) /\ unit_index < Len(UNITS) - 1
    THEN format_loop(div_kilo(size), unit_index + 1)
    ELSE [size |-> size, unit_index |-> unit_index]

\* format!("{:.2} {}", size, UNITS[unit_index]): the number and its unit;
\* UNITS[unit_index] panics when unit_index is out of bounds
format_bytes(limbs) ==
    LET r == format_loop(as_f64(limbs), 0)
    IN  IF r.unit_index < Len(UNITS)
        THEN [size |-> r.size, unit_index |-> r.unit_index, unit |-> UNITS[r.unit_index + 1]]
        ELSE [size |-> r.size, unit_index |-> r.unit_index, unit |-> "panic"]

----------------------------------------------------------------------------
(* ui *)

\* Vec::get with the index clamped to the last element
get_clamped(v, i) ==
    IF i < Len(v) THEN Some(v[i + 1])
    ELSE IF Len(v) > 0 THEN Some(v[Len(v)]) ELSE None

\* Vec::get
get(v, i) == IF i < Len(v) THEN Some(v[i + 1]) ELSE None

\* (usage as f64 / limit as f64) * 100.0: the f64 division never traps; a
\* zero denominator stands for the infinity or NaN it gives
percent(usage, limit) == [num |-> usage * 100, den |-> limit]

\* what ui() hands to the frame: the rows of the list pane, the selection
\* given to ListState, the detail pane (None when it is not rendered) and
\* the help bar
ui(a) ==
    [ items    |-> [i \in 1..Len(a.containers) |->
                      [ name |-> a.containers[i].name,
                        memory_percent |-> percent(a.containers[i].memory_usage,
                                                   a.containers[i].memory_limit) ]],
      selected |-> Some(a.selected_index),
      details  |-> LET got == get(a.containers, a.selected_index)
                   IN  IF got = None THEN None
                       ELSE Some([ name |-> got[1].name,
                                   memory_percent |-> percent(got[1].memory_usage,
                                                              got[1].memory_limit),
                                   memory_text |-> format_bytes(
                                       u64_limbs(got[1].memory_usage, U64Limbs)) ]),
      help     |-> TRUE ]

----------------------------------------------------------------------------
(* main(): set-up *)

Ended == {"done", "failed", "panicked"}

\* no call of calculate_cpu_usage or format_bytes is being followed
NoCall == [fn |-> "none"]

Fail(at) ==
    /\ pc' = "failed"
    /\ err' = at

MainInit ==
    /\ pc = "enable_raw"
    /\ err = "none"
    /\ raw_mode = FALSE
    /\ alt_screen = FALSE
    /\ mouse_capture = FALSE
    /\ app = App_new
    /\ elapsed = 0
    /\ event = NoEvent
    /\ pending = <<>>
    /\ stream = "idle"
    /\ old_containers = <<>>
    /\ enumerated = <<>>
    /\ requested = <<>>

Init ==
    /\ MainInit
    /\ call = NoCall

\* enable_raw_mode()?
EnableRawMode ==
    /\ pc = "enable_raw"
    /\ \/ /\ raw_mode' = TRUE
          /\ pc' = "enter_alt"
          /\ err' = err
       \/ /\ Fail("enable_raw")
          /\ raw_mode' = raw_mode
    /\ UNCHANGED <<alt_screen, mouse_capture, app, elapsed, event, pending, stream,
                   old_containers,
                   enumerated, requested, call>>

\* execute!(stdout, EnterAlternateScreen, EnableMouseCapture)?
\* a failed write can leave the first command applied
EnterAlternateScreen ==
    /\ pc = "enter_alt"
    /\ \/ /\ alt_screen' = TRUE
          /\ mouse_capture' = TRUE
          /\ pc' = "term_new"
          /\ err' = err
       \/ /\ Fail("enter_alt")
          /\ alt_screen' \in BOOLEAN
          /\ mouse_capture' = FALSE
    /\ UNCHANGED <<raw_mode, app, elapsed, event, pending, stream, old_containers,
                   enumerated, requested, call>>

\* Terminal::new(backend)?
TerminalNew ==
    /\ pc = "term_new"
    /\ \/ /\ pc' = "connect"
          /\ err' = err
       \/ Fail("term_new")
    /\ UNCHANGED <<raw_mode, alt_screen, mouse_capture, app, elapsed, event, pending,
                   stream, old_containers,
                   enumerated, requested, call>>

\* Docker::connect_with_local_defaults()?; App::new(); last_tick = Instant::now()
Connect ==
    /\ pc = "connect"
    /\ \/ /\ pc' = "draw"
          /\ err' = err
          /\ app' = App_new
          /\ elapsed' = 0
       \/ /\ Fail("connect")
          /\ UNCHANGED <<app, elapsed>>
    /\ UNCHANGED <<raw_mode, alt_screen, mouse_capture, event, pending, stream,
                   old_containers,
                   enumerated, requested, call>>

----------------------------------------------------------------------------
(* main(): the loop *)

\* terminal.draw(|f| ui(f, &app))?
Draw ==
    /\ pc = "draw"
    /\ \/ /\ pc' = "poll"
          /\ err' = err
          /\ elapsed' \in Later(elapsed)
       \/ /\ Fail("draw")
          /\ elapsed' = elapsed
    /\ UNCHANGED <<raw_mode, alt_screen, mouse_capture, app, event, pending, stream,
                   old_containers,
                   enumerated, requested, call>>

\* timeout = tick_rate - last_tick.elapsed(), or zero; crossterm::event::poll(timeout)?
\* true: an event arrived after waiting at most timeout; false: timeout has passed
Poll ==
    /\ pc = "poll"
    /\ LET timeout == checked_sub_or_zero(tick_rate, elapsed)
       IN  \/ /\ Fail("poll")
              /\ UNCHANGED <<elapsed, event>>
           \/ \E d \in Delays, ev \in Events :
                /\ d <= timeout
                /\ elapsed' = Min(elapsed + d, tick_rate)
                /\ event' = ev
                /\ pc' = "read"
                /\ err' = err
           \/ /\ elapsed' = Min(elapsed + timeout, tick_rate)
              /\ event' = event
              /\ pc' = "tick"
              /\ err' = err
    /\ UNCHANGED <<raw_mode, alt_screen, mouse_capture, app, pending, stream,
                   old_containers,
                   enumerated, requested, call>>

\* ReadEvent with the quit key leaving the loop at once
ReadEventBreak ==
    /\ pc = "read"
    /\ \/ /\ Fail("read")
          /\ UNCHANGED <<app, event>>
       \/ /\ app' = HandleEvent(app, event)
          /\ event' = NoEvent
          /\ pc' = IF app'.should_quit THEN "disable_raw" ELSE "tick"
          /\ err' = err
    /\ UNCHANGED <<raw_mode, alt_screen, mouse_capture, elapsed, pending, stream,
                   old_containers,
                   enumerated, requested, call>>

\* if let Event::Key(key) = event::read()? { match key.code {..} }
ReadEvent ==
    /\ pc = "read"
    /\ \/ /\ Fail("read")
          /\ UNCHANGED <<app, event>>
       \/ /\ app' = HandleEvent(app, event)
          /\ event' = NoEvent
          /\ pc' = "tick"
          /\ err' = err
    /\ UNCHANGED <<raw_mode, alt_screen, mouse_capture, elapsed, pending, stream,
                   old_containers,
                   enumerated, requested, call>>

\* if last_tick.elapsed() >= tick_rate { app.update_stats(&docker).await?; .. }
\* update_stats up to its first await: list_containers, then the reset of self.containers
Tick ==
    /\ pc = "tick"
    /\ IF elapsed >= tick_rate
       THEN \/ /\ Fail("list")
               /\ old_containers' = app.containers
               /\ UNCHANGED <<app, pending, enumerated, requested>>
            \/ \E listed \in Listings :
                 /\ old_containers' = app.containers
                 /\ app' = ResetContainers(app)
                 /\ pending' = listed
                 /\ enumerated' = listed
                 /\ requested' = <<>>
                 /\ pc' = "stats"
                 /\ err' = err
       ELSE /\ pc' = "quit_check"
            /\ UNCHANGED <<err, app, pending, old_containers, enumerated, requested>>
    /\ UNCHANGED <<raw_mode, alt_screen, mouse_capture, elapsed, event, stream, call>>

\* StatsRequest giving the loop its turn while the stats stream is awaited
StatsRequestYields ==
    /\ pc = "stats"
    /\ IF pending = <<>>
       THEN /\ pc' = "quit_check"
            /\ elapsed' = 0
            /\ old_containers' = <<>>
            /\ enumerated' = <<>>
            /\ requested' = <<>>
            /\ UNCHANGED <<pending, stream>>
       ELSE IF Head(pending).id = None
       THEN /\ pending' = Tail(pending)
            /\ UNCHANGED <<pc, elapsed, stream, old_containers, enumerated, requested>>
       ELSE /\ pc' = "draw"
            /\ stream' \in StreamBehaviours
            /\ requested' = Append(requested, Head(pending).id[1])
            /\ UNCHANGED <<pending, elapsed, old_containers, enumerated>>
    /\ UNCHANGED <<err, raw_mode, alt_screen, mouse_capture, app, event, call>>

\* update_stats: head of the for loop.  No container left: Ok(()) and
\* last_tick = Instant::now().  A container without id is skipped.  Otherwise
\* docker.stats(&id, None).try_next() is awaited.
StatsRequest ==
    /\ pc = "stats"
    /\ IF pending = <<>>
       THEN /\ pc' = "quit_check"
            /\ elapsed' = 0
            /\ old_containers' = <<>>
            /\ enumerated' = <<>>
            /\ requested' = <<>>
            /\ UNCHANGED <<pending, stream>>
       ELSE IF Head(pending).id = None
       THEN /\ pending' = Tail(pending)
            /\ UNCHANGED <<pc, elapsed, stream, old_containers, enumerated, requested>>
       ELSE /\ pc' = "await_stats"
            /\ stream' \in StreamBehaviours
            /\ requested' = Append(requested, Head(pending).id[1])
            /\ UNCHANGED <<pending, elapsed, old_containers, enumerated>>
    /\ UNCHANGED <<err, raw_mode, alt_screen, mouse_capture, app, event, call>>

\* StatsResume putting the new ContainerStats in front of the list
StatsResumePrepends ==
    /\ pc = "await_stats"
    /\ stream # "never"
    /\ stream' = "idle"
    /\ \/ /\ stream = "error"
          /\ Fail("stats")
          /\ UNCHANGED <<app, pending>>
       \/ /\ stream = "end"
          /\ pc' = "panicked"
          /\ UNCHANGED <<err, app, pending>>
       \/ /\ stream = "item"
          /\ \E st \in StatsOf(Head(pending).id[1]) :
               IF HasFirstName(Head(pending))
               THEN /\ app' = [app EXCEPT !.containers =
                                   <<MakeContainerStats(Head(pending), st)>> \o @]
                    /\ pending' = Tail(pending)
                    /\ pc' = "stats"
                    /\ err' = err
               ELSE /\ pc' = "panicked"
                    /\ UNCHANGED <<err, app, pending>>
    /\ UNCHANGED <<raw_mode, alt_screen, mouse_capture, elapsed, event, old_containers,
                   enumerated, requested, call>>

\* update_stats: the await returns.  Err: `?` returns it.  Ok(None): unwrap()
\* panics.  Ok(Some(stats)): the ContainerStats is built and pushed; names
\* .unwrap_or_default()[0] panics when there is no first alias.
StatsResume ==
    /\ pc = "await_stats"
    /\ stream # "never"
    /\ stream' = "idle"
    /\ \/ /\ stream = "error"
          /\ Fail("stats")
          /\ UNCHANGED <<app, pending>>
       \/ /\ stream = "end"
          /\ pc' = "panicked"
          /\ UNCHANGED <<err, app, pending>>
       \/ /\ stream = "item"
          /\ \E st \in StatsOf(Head(pending).id[1]) :
               IF HasFirstName(Head(pending))
               THEN /\ app' = [app EXCEPT !.containers =
                                   Append(@, MakeContainerStats(Head(pending), st))]
                    /\ pending' = Tail(pending)
                    /\ pc' = "stats"
                    /\ err' = err
               ELSE /\ pc' = "panicked"
                    /\ UNCHANGED <<err, app, pending>>
    /\ UNCHANGED <<raw_mode, alt_screen, mouse_capture, elapsed, event, old_containers,
                   enumerated, requested, call>>

\* QuitCheck without the break
QuitCheckNoBreak ==
    /\ pc = "quit_check"
    /\ pc' = "draw"
    /\ UNCHANGED <<err, raw_mode, alt_screen, mouse_capture, app, elapsed, event,
                   pending, stream, old_containers,
                   enumerated, requested, call>>

\* if app.should_quit { break; }
QuitCheck ==
    /\ pc = "quit_check"
    /\ pc' = IF app.should_quit THEN "disable_raw" ELSE "draw"
    /\ UNCHANGED <<err, raw_mode, alt_screen, mouse_capture, app, elapsed, event,
                   pending, stream, old_containers,
                   enumerated, requested, call>>

----------------------------------------------------------------------------
(* main(): restoring the terminal after the loop *)

\* disable_raw_mode()?
DisableRawMode ==
    /\ pc = "disable_raw"
    /\ \/ /\ raw_mode' = FALSE
          /\ pc' = "leave_alt"
          /\ err' = err
       \/ /\ Fail("disable_raw")
          /\ raw_mode' = raw_mode
    /\ UNCHANGED <<alt_screen, mouse_capture, app, elapsed, event, pending, stream,
                   old_containers,
                   enumerated, requested, call>>

\* execute!(terminal.backend_mut(), LeaveAlternateScreen, DisableMouseCapture)?
\* a failed write can leave the first command applied
LeaveAlternateScreen ==
    /\ pc = "leave_alt"
    /\ \/ /\ alt_screen' = FALSE
          /\ mouse_capture' = FALSE
          /\ pc' = "show_cursor"
          /\ err' = err
       \/ /\ Fail("leave_alt")
          /\ alt_screen' \in {alt_screen, FALSE}
          /\ mouse_capture' = mouse_capture
    /\ UNCHANGED <<raw_mode, app, elapsed, event, pending, stream, old_containers,
                   enumerated, requested, call>>

\* terminal.show_cursor()?; Ok(())
ShowCursor ==
    /\ pc = "show_cursor"
    /\ \/ /\ pc' = "done"
          /\ err' = err
       \/ Fail("show_cursor")
    /\ UNCHANGED <<raw_mode, alt_screen, mouse_capture, app, elapsed, event, pending,
                   stream, old_containers,
                   enumerated, requested, call>>

\* the process's exit status: 0 from Ok(()), 1 from Err, 101 from a panic
exit_code ==
    IF pc = "done" THEN 0 ELSE IF pc = "failed" THEN 1 ELSE IF pc = "panicked" THEN 101
    ELSE -1

Next ==
    \/ EnableRawMode
    \/ EnterAlternateScreen
    \/ TerminalNew
    \/ Connect
    \/ Draw
    \/ Poll
    \/ ReadEvent
    \/ Tick
    \/ StatsRequest
    \/ StatsResume
    \/ QuitCheck
    \/ DisableRawMode
    \/ LeaveAlternateScreen
    \/ ShowCursor

Spec == Init /\ [][Next]_vars

\* the control thread runs whenever it can take a step
FairSpec == Spec /\ WF_vars(Next)

----------------------------------------------------------------------------
(* calculate_cpu_usage and format_bytes called on their own, for every
   argument of a bounded set *)

\* counter values of a stats item
Counters == {0, 100, 150, 1000, 1500, Modulus - 1}

\* cpu_stats / precpu_stats of a stats item: total_usage of both, and the
\* optional system_cpu_usage of both
CpuStats ==
    [ cpu_total : Counters, precpu_total : Counters,
      system : Option(Counters), presystem : Option(Counters) ]

\* byte counts: every digit is 0, 1 or the largest digit
ByteCounts ==
    { limbs \in [1..U64Limbs -> {0, 1, TopLimbMax, kilo - 1}] :
        /\ limbs[U64Limbs] <= TopLimbMax
        /\ \A j \in 1..(U64Limbs - 1) : limbs[j] # TopLimbMax }

NoRet == <<>>

FnInit ==
    /\ MainInit
    /\ \/ call \in [fn : {"calculate_cpu_usage"}, arg : CpuStats, build : Builds,
                     returned : {FALSE}, ret : {NoRet}]
       \/ call \in [fn : {"format_bytes"}, arg : ByteCounts, build : Builds,
                     returned : {FALSE}, ret : {NoRet}]

main_vars == <<pc, err, raw_mode, alt_screen, mouse_capture, app, elapsed, event,
               pending, stream, old_containers, enumerated, requested>>

CalculateCpuUsage ==
    /\ call.fn = "calculate_cpu_usage"
    /\ ~call.returned
    /\ call' = [call EXCEPT !.returned = TRUE,
                            !.ret = calculate_cpu_usage(call.arg, call.build)]
    /\ UNCHANGED main_vars

FormatBytes ==
    /\ call.fn = "format_bytes"
    /\ ~call.returned
    /\ call' = [call EXCEPT !.returned = TRUE, !.ret = format_bytes(call.arg)]
    /\ UNCHANGED main_vars

FnNext ==
    \/ CalculateCpuUsage
    \/ FormatBytes

FnSpec == FnInit /\ [][FnNext]_vars

----------------------------------------------------------------------------
(* Properties *)

\* positions of the loop between two of its operations
LoopPcs == {"draw", "poll", "read", "tick", "quit_check"}
\* positions inside App::update_stats
CollectPcs == {"stats", "await_stats"}

TerminalRestored == ~raw_mode /\ ~alt_screen /\ ~mouse_capture

\* C1: between the operations of the loop (after any key events and completed
\* refreshes), 0 <= selected_index < max(1, len(containers)).
SelectedIndexInBounds ==
    pc \in LoopPcs =>
        /\ 0 <= app.selected_index
        /\ app.selected_index < Max(1, Len(app.containers))

\* C2: when the process ends by a clean quit, or with the error of the runtime
\* connection, of a draw, of the input poll or read, or of a collection, the
\* terminal is back in its prior mode.
TerminalRestoredOnExit ==
    (\/ pc = "done"
     \/ pc = "failed" /\ err \in {"connect", "draw", "poll", "read", "list", "stats"})
    => TerminalRestored

\* C3: a refresh that completes leaves selected_index at
\* min(old selected_index, len(new containers) - 1), floored at 0.
RefreshClampsSelection ==
    [][pc = "stats" /\ pc' = "quit_check" =>
          app'.selected_index =
              Max(0, Min(app.selected_index, Len(app'.containers) - 1))]_vars

\* C4: an Up key decrements selected_index by one iff it is > 0, a Down key
\* increments it by one iff it is < len(containers) - 1; otherwise the key
\* leaves it as it is (no wraparound, also on an empty list).
NavigationBounded ==
    [][pc = "read" /\ pc' = "tick" =>
          /\ event = [kind |-> "Key", code |-> "Up"] =>
                app'.selected_index =
                    IF app.selected_index > 0
                    THEN app.selected_index - 1 ELSE app.selected_index
          /\ event = [kind |-> "Key", code |-> "Down"] =>
                app'.selected_index =
                    IF app.selected_index < Len(app.containers) - 1
                    THEN app.selected_index + 1 ELSE app.selected_index]_vars

\* C4 witness: a Down key is about to be handled at the last index of a
\* three-container list, which two earlier Down keys reached.
NavigationAtLastIndex ==
    /\ pc = "read"
    /\ event = [kind |-> "Key", code |-> "Down"]
    /\ Len(app.containers) = 3
    /\ app.selected_index = 2

\* C5: should_quit starts false and no step sets it back to false.
ShouldQuitMonotonic ==
    /\ app.should_quit = FALSE
    /\ [][app.should_quit => app'.should_quit]_vars

\* C5 witness: a refresh is in progress after the quit key set should_quit.
QuitSetDuringRefresh == app.should_quit /\ pc = "await_stats"

\* C6: when a collection fails, app.containers is what it was before the
\* refresh or the complete new list, never only a prefix of the new list.
NoPartialResult ==
    /\ pc = "failed" /\ err = "list" => app.containers = old_containers
    /\ pc = "failed" /\ err = "stats" =>
          \/ app.containers = old_containers
          \/ \A i \in 1..Len(pending) : pending[i].id = None

\* C7: every collection that starts eventually completes or fails.
CollectionTerminates == (pc \in CollectPcs) ~> (pc \notin CollectPcs)

\* C8: for a listed container with an id and no first alias, the stats item
\* is followed by a pushed ContainerStats with an empty name, and the
\* collection goes on.
AbsentNamesGiveEmptyName ==
    [][pc = "await_stats" /\ stream = "item" /\ ~HasFirstName(Head(pending)) =>
          /\ pc' = "stats"
          /\ Len(app'.containers) = Len(app.containers) + 1
          /\ app'.containers[Len(app'.containers)].name = <<>>]_vars

\* C9: a cycle runs render, poll, at most one event, the tick check, the
\* should_quit check, in this order; the tick check starts the collection
\* whenever the tick interval has elapsed, whatever the event was.
CycleOrder ==
    [][/\ pc = "draw" => pc' \in {"poll", "failed"}
       /\ pc = "poll" => pc' \in {"read", "tick", "failed"}
       /\ pc = "read" => pc' \in {"tick", "failed"}
       /\ pc = "tick" =>
             IF elapsed >= tick_rate
             THEN pc' \in {"stats", "failed"}
             ELSE pc' = "quit_check"
       /\ pc \in CollectPcs =>
             pc' \in CollectPcs \cup {"quit_check", "failed", "panicked"}
       /\ pc = "quit_check" => pc' \in {"draw", "disable_raw"}]_vars

\* C9 witness: the collection runs in the cycle whose event was the quit key.
CollectionAfterQuitKey == app.should_quit /\ pc = "stats"

\* C10 as stated: once the quit key is handled there is no further render or
\* poll, and the run ends as a clean quit with exit code 0.
QuitEndsClean ==
    app.should_quit =>
        /\ pc \notin {"draw", "poll", "read"}
        /\ pc \in Ended => pc = "done" /\ exit_code = 0

\* C10 amended: once the quit key is handled there is no further render,
\* poll or event; the should_quit check of that cycle leaves the loop; and
\* exit code 0 is the end of a run that quit, returned no error and restored
\* the terminal.
QuitLeavesLoop ==
    /\ [](app.should_quit => pc \notin {"draw", "poll", "read"})
    /\ [][pc = "quit_check" /\ app.should_quit => pc' = "disable_raw"]_vars
    /\ [](exit_code = 0 => app.should_quit /\ err = "none" /\ TerminalRestored)

\* C10 witness: the run has ended as a clean quit.
CleanQuit == pc = "done" /\ app.should_quit /\ exit_code = 0

\* a refresh has begun and update_stats has not returned
RefreshInProgress == pending # <<>> \/ stream # "idle" \/ enumerated # <<>>

\* a step inside update_stats stays inside it or ends it, and leaves the
\* selection, the quit flag and the input queue alone
RefreshStepKeepsInput ==
    pc \in CollectPcs =>
        /\ pc' \in CollectPcs \cup {"quit_check", "failed", "panicked"}
        /\ app'.selected_index = app.selected_index
        /\ app'.should_quit = app.should_quit
        /\ event' = event

\* C11: while a refresh is rebuilding app.containers (from the reset of the
\* list until update_stats returns), the loop is at none of its own steps: no
\* render, no poll, no key event; and a step inside update_stats changes
\* neither selected_index nor should_quit.  Render and navigation therefore
\* see only lists that a refresh has completed.
RefreshNotInterleaved ==
    /\ [](pc \in LoopPcs => ~RefreshInProgress)
    /\ [](RefreshInProgress => pc \in CollectPcs \cup {"failed", "panicked"})
    /\ [][RefreshStepKeepsInput]_vars

\* C11 witness: a refresh has rebuilt one entry of a three-container list and
\* awaits the stats of the next.
RefreshPartlyBuilt ==
    /\ pc = "await_stats"
    /\ Len(enumerated) = 3
    /\ Len(app.containers) = 1
    /\ Len(pending) = 2

\* C12: once a collection has failed in the loop, nothing more runs (no
\* render, poll, retry or further fetch), and the run has ended with a
\* non-zero exit code and the terminal restored.
CollectionFailureEndsRun ==
    pc = "failed" /\ err \in {"list", "stats"} =>
        /\ ~ENABLED Next
        /\ exit_code # 0
        /\ TerminalRestored

\* the ids of the listed containers that have one, in the order of the list
RECURSIVE IdsOf(_)
IdsOf(cs) ==
    IF cs = <<>> THEN <<>>
    ELSE IF Head(cs).id = None THEN IdsOf(Tail(cs))
    ELSE <<Head(cs).id[1]>> \o IdsOf(Tail(cs))

\* the ids of the ContainerStats of a list, in its order
ContainerIds(v) == [i \in 1..Len(v) |-> v[i].id]

CollectionReturnsOk == pc = "stats" /\ pc' = "quit_check"
CollectionSkipsHead == pc = "stats" /\ pending # <<>> /\ Head(pending).id = None

CollectionStep ==
    /\ CollectionReturnsOk =>
          /\ ContainerIds(app'.containers) = IdsOf(enumerated)
          /\ requested = IdsOf(enumerated)
    /\ CollectionSkipsHead =>
          /\ pc' = "stats"
          /\ err' = err
          /\ requested' = requested
          /\ app' = app

\* C13: a collection that returns Ok leaves one ContainerStats per listed
\* container with an id, in the order of the listing, after one stats request
\* for each of them; a container without id is passed over with no error,
\* no request and no entry.
CollectionOnePerIdInOrder == [][CollectionStep]_vars

\* C13 witness: a collection is about to return Ok for a listing of three
\* containers, one of them without id, with two entries built.
CollectionOfThreeCompletes ==
    /\ pc = "stats"
    /\ pending = <<>>
    /\ Len(enumerated) = 3
    /\ Len(app.containers) = 2
    /\ app.containers[1].id # app.containers[2].id

\* the step that handles the event event::read() returned
EventHandled == pc = "read" /\ pc' = "tick"

EventStep ==
    EventHandled =>
        /\ app'.containers = app.containers
        /\ UNCHANGED <<pending, stream, enumerated, requested, old_containers>>
        /\ event = [kind |-> "Key", code |-> "q"] =>
              app' = [app EXCEPT !.should_quit = TRUE]
        /\ event \in {[kind |-> "Key", code |-> "Up"], [kind |-> "Key", code |-> "Down"]} =>
              app' = [app EXCEPT !.selected_index = app'.selected_index]
        /\ event \notin {[kind |-> "Key", code |-> c] : c \in {"q", "Up", "Down"}} =>
              app' = app

RenderToleratesSelection ==
    pc = "draw" =>
        LET frame == ui(app)
        IN  /\ Len(frame.items) = Len(app.containers)
            /\ frame.selected = Some(app.selected_index)
            /\ frame.help
            /\ frame.details # None <=> app.selected_index < Len(app.containers)
            /\ frame.details # None =>
                  frame.details[1].name = app.containers[app.selected_index + 1].name

\* C15 witness: a render with selected_index past the end of a non-empty list.
RenderWithIndexPastEnd ==
    /\ pc = "draw"
    /\ Len(app.containers) >= 1
    /\ app.selected_index >= Len(app.containers)

\* a call of calculate_cpu_usage has returned or panicked
CpuReturned == call.fn = "calculate_cpu_usage" /\ call.returned

\* C16: calculate_cpu_usage never panics and never divides by zero: it
\* returns exactly 0 when the system counters are absent or have not moved,
\* and a counter that went back (total_usage or system_cpu_usage smaller
\* than its predecessor) still gives a value.
CpuUsageTotal ==
    CpuReturned =>
        /\ ~call.ret.panic
        /\ call.ret.den # 0
        /\ unwrap_or(call.arg.system, 0) = unwrap_or(call.arg.presystem, 0) =>
              call.ret.num = 0 /\ call.ret.den = 1

\* C17: every ContainerStats in app.containers has memory_limit >= 1,
\* whatever memory figures the stats item carried.
MemoryLimitAtLeastOne ==
    \A i \in 1..Len(app.containers) : app.containers[i].memory_limit >= 1

\* a call of format_bytes has returned
FmtReturned == call.fn = "format_bytes" /\ call.returned

\* how often a byte count can be divided by 1024 and stay >= 1: the place
\* of its highest digit that is not 0
TimesDivisible(limbs) ==
    IF \A j \in 1..Len(limbs) : limbs[j] = 0 THEN 0
    ELSE CHOOSE k \in 0..(Len(limbs) - 1) :
            /\ limbs[k + 1] # 0
            /\ \A j \in (k + 2)..Len(limbs) : limbs[j] = 0

\* C18: format_bytes gives the unit of index min(3, times the byte count can
\* be divided by 1024 staying >= 1) of (B, KB, MB, GB), after that many
\* divisions and never more than three; the scaled value is below 1024 for
\* every byte count below 1024 GB, and a byte count of 1024 GB or more is
\* given in GB.
UnitChoice ==
    FmtReturned =>
        LET times == TimesDivisible(call.arg)
            ret == call.ret
        IN  /\ ret.unit_index = Min(3, times)
            /\ ret.unit = UNITS[Min(3, times) + 1]
            /\ ret.size.shift = ret.unit_index
            /\ ret.size.shift <= 3
            /\ ret.size.limbs = call.arg
            /\ times <= 3 => ~ge_kilo(ret.size)
            /\ times >= 4 => ret.unit = "GB" /\ ge_kilo(ret.size)

\* C18 witness: format_bytes has returned for a byte count with the highest
\* bits of a u64 set, far above 1024 GB.
FormatOfHugeCount ==
    /\ FmtReturned
    /\ call.arg[U64Limbs] = TopLimbMax
    /\ call.ret.unit = "GB"

\* the awaited stats stream yields, fails or ends, for a container whose
\* name can be taken
FetchOutcome ==
    /\ pc = "await_stats"
    /\ stream \in {"item", "error", "end"}
    /\ HasFirstName(Head(pending))

FetchOutcomeStep ==
    FetchOutcome =>
        \/ /\ pc' = "stats"
           /\ Len(app'.containers) = Len(app.containers) + 1
           /\ app'.containers[Len(app'.containers)].id = Head(pending).id[1]
        \/ /\ pc' = "failed"
           /\ err' = "stats"

\* C19: whatever the stats fetch of a container does (an item, a transport
\* error, the end of the stream without an item), the container is appended
\* to the list or the collection returns the error; the collector never
\* panics.
FetchOutcomeHandled == [][FetchOutcomeStep]_vars

====
